---- MODULE Spec2Model ----
(***************************************************************************)
(* Model of the OpenFeedbackLayer ingestion pipeline:                      *)
(*   - the in-memory fixed-window rate limiter (route.ts, checkRateLimit)  *)
(*   - the POST handler of the feedback route, one process per request,    *)
(*     interleaved at its await points                                     *)
(*   - the classification client (ai-service.ts, analyzeFeedback)          *)
(***************************************************************************)
EXTENDS Integers, Sequences, FiniteSets, TLC

VARIABLES
    now,            \* Date.now(), milliseconds
    rateLimitMap,   \* route.ts rateLimitMap: identity -> [count, resetAt]
    win,            \* history: per identity, the calls of the current window
    aiReply,        \* what model.generateContent produced for one analyzeFeedback call
    aiResult,       \* what that analyzeFeedback call resolved to, once it has
    req,            \* the POST invocations in flight: locals, position, effects
    widget          \* FeedbackWidget: its React state and its sends in flight

limiterVars == <<now, rateLimitMap, win>>
aiVars == <<aiReply, aiResult>>
vars == <<now, rateLimitMap, win, aiReply, aiResult, req, widget>>

\* JavaScript values. Every value is a record tagged by its kind, so that
\* values of different kinds compare unequal.
Null == [k |-> "null"]
Undefined == [k |-> "undefined"]
Str(s) == [k |-> "string", s |-> s]
Num(n) == [k |-> "number", n |-> n]
Arr == [k |-> "array"]
Chars(c) == [k |-> "chars", c |-> c]
File(n) == [k |-> "file", size |-> n]
Uuid(n) == [k |-> "uuid", n |-> n]

\* JavaScript truthiness (!v is ~Truthy(v)).
Truthy(v) ==
    CASE v.k = "string" -> v.s # ""
      [] v.k = "chars" -> v.c # << >>
      [] v.k = "number" -> v.n # 0
      [] v.k \in {"null", "undefined"} -> FALSE
      [] OTHER -> TRUE

-----------------------------------------------------------------------------
(* Rate limiter                                                            *)

RATE_LIMIT == 10

RATE_WINDOW == 60 * 1000

\* Largest clock value explored.
MaxNow == 60001

\* Largest number of checkRateLimit calls recorded for one identity in one window.
MaxCalls == 11

\* Client identities the rate limiter is called with.
Ips == {"203.0.113.7", "unknown"}

\* The identities requests can carry in their headers.
Peers == Ips \cup {"198.51.100.9"}

\* Clock advances between two events.
TickSteps == {RATE_WINDOW \div 2, (RATE_WINDOW \div 2) + 1}

\* rateLimitMap.set(ip, entry)
MapSet(map, ip, entry) ==
    [x \in (DOMAIN map) \cup {ip} |-> IF x = ip THEN entry ELSE map[x]]

\* Mutant: the limit test is off by one (count > RATE_LIMIT).
checkRateLimitOffByOne(map, ip, t) ==
    IF ip \notin DOMAIN map \/ t > map[ip].resetAt
    THEN [admit |-> TRUE,
          map   |-> MapSet(map, ip, [count |-> 1, resetAt |-> t + RATE_WINDOW])]
    ELSE IF map[ip].count > RATE_LIMIT
    THEN [admit |-> FALSE, map |-> map]
    ELSE [admit |-> TRUE,
          map   |-> MapSet(map, ip, [map[ip] EXCEPT !.count = @ + 1])]

\* Mutant: the window is reset one instant early (now >= entry.resetAt).
checkRateLimitEarlyReset(map, ip, t) ==
    IF ip \notin DOMAIN map \/ t >= map[ip].resetAt
    THEN [admit |-> TRUE,
          map   |-> MapSet(map, ip, [count |-> 1, resetAt |-> t + RATE_WINDOW])]
    ELSE IF map[ip].count >= RATE_LIMIT
    THEN [admit |-> FALSE, map |-> map]
    ELSE [admit |-> TRUE,
          map   |-> MapSet(map, ip, [map[ip] EXCEPT !.count = @ + 1])]

\* Mutant: the increment is lost (the entry is written back unchanged).
checkRateLimitLostUpdate(map, ip, t) ==
    IF ip \notin DOMAIN map \/ t > map[ip].resetAt
    THEN [admit |-> TRUE,
          map   |-> MapSet(map, ip, [count |-> 1, resetAt |-> t + RATE_WINDOW])]
    ELSE IF map[ip].count >= RATE_LIMIT
    THEN [admit |-> FALSE, map |-> map]
    ELSE [admit |-> TRUE, map |-> map]

\* Mutant: a rejected call starts the window again.
checkRateLimitExtend(map, ip, t) ==
    IF ip \notin DOMAIN map \/ t > map[ip].resetAt
    THEN [admit |-> TRUE,
          map   |-> MapSet(map, ip, [count |-> 1, resetAt |-> t + RATE_WINDOW])]
    ELSE IF map[ip].count >= RATE_LIMIT
    THEN [admit |-> FALSE,
          map   |-> MapSet(map, ip, [map[ip] EXCEPT !.resetAt = t + RATE_WINDOW])]
    ELSE [admit |-> TRUE,
          map   |-> MapSet(map, ip, [map[ip] EXCEPT !.count = @ + 1])]

\* Mutant: a reset window starts where the old one ended, not at the call.
checkRateLimitTiled(map, ip, t) ==
    IF ip \notin DOMAIN map \/ t > map[ip].resetAt
    THEN [admit |-> TRUE,
          map   |-> MapSet(map, ip,
                      [count   |-> 1,
                       resetAt |-> IF ip \in DOMAIN map THEN map[ip].resetAt + RATE_WINDOW
                                   ELSE t + RATE_WINDOW])]
    ELSE IF map[ip].count >= RATE_LIMIT
    THEN [admit |-> FALSE, map |-> map]
    ELSE [admit |-> TRUE,
          map   |-> MapSet(map, ip, [map[ip] EXCEPT !.count = @ + 1])]

\* Mutant: a new window starts with count 0.
checkRateLimitZeroStart(map, ip, t) ==
    IF ip \notin DOMAIN map \/ t > map[ip].resetAt
    THEN [admit |-> TRUE,
          map   |-> MapSet(map, ip, [count |-> 0, resetAt |-> t + RATE_WINDOW])]
    ELSE IF map[ip].count >= RATE_LIMIT
    THEN [admit |-> FALSE, map |-> map]
    ELSE [admit |-> TRUE,
          map   |-> MapSet(map, ip, [map[ip] EXCEPT !.count = @ + 1])]

\* checkRateLimit(ip) called at clock value t on table map: the result and the
\* table it leaves.
checkRateLimit(map, ip, t) ==
    IF ip \notin DOMAIN map \/ t > map[ip].resetAt
    THEN [admit |-> TRUE,
          map   |-> MapSet(map, ip, [count |-> 1, resetAt |-> t + RATE_WINDOW])]
    ELSE IF map[ip].count >= RATE_LIMIT
    THEN [admit |-> FALSE, map |-> map]
    ELSE [admit |-> TRUE,
          map   |-> MapSet(map, ip, [map[ip] EXCEPT !.count = @ + 1])]

\* History of one identity: the window opened by its first admitted call at
\* `start` (closed interval [start, start + RATE_WINDOW]), the calls made and
\* admitted in it, the result of the latest call, and the result of the
\* last call before the window opened ("none" if there was no such call).
NoWindow == [start |-> -1, calls |-> 0, admitted |-> 0, last |-> TRUE, prior |-> "none"]

InWindow(w, t) == w.start >= 0 /\ t <= w.start + RATE_WINDOW

Record(w, t, admit) ==
    IF InWindow(w, t)
    THEN [start    |-> w.start,
          calls    |-> w.calls + 1,
          admitted |-> w.admitted + (IF admit THEN 1 ELSE 0),
          last     |-> admit,
          prior    |-> w.prior]
    ELSE IF admit
    THEN [start |-> t, calls |-> 1, admitted |-> 1, last |-> TRUE,
          prior |-> IF w.start < 0 THEN "none"
                    ELSE IF w.last THEN "admitted" ELSE "rejected"]
    ELSE [NoWindow EXCEPT !.last = FALSE]

\* The call can be recorded without exceeding MaxCalls.
CanRecord(ip, t) == ~InWindow(win[ip], t) \/ win[ip].calls < MaxCalls

\* Time passes.
Tick ==
    /\ \E d \in TickSteps :
          /\ now + d <= MaxNow
          /\ now' = now + d
    /\ UNCHANGED <<rateLimitMap, win, aiVars, req, widget>>

\* One call checkRateLimit(ip).
Call(ip) ==
    /\ CanRecord(ip, now)
    /\ LET res == checkRateLimit(rateLimitMap, ip, now) IN
          /\ rateLimitMap' = res.map
          /\ win' = [win EXCEPT ![ip] = Record(@, now, res.admit)]
    /\ UNCHANGED <<now, aiVars, req, widget>>

-----------------------------------------------------------------------------
(* Classification client: analyzeFeedback                                  *)

\* The ten fields of FeedbackAIData, in declaration order.
AIFields == {"title", "short_summary", "key_details", "suggested_category",
             "suggested_feature_area", "suggested_priority", "steps",
             "expected", "confidence", "clarifying_questions"}

Categories == {"bug", "feature", "question", "billing", "praise", "other"}

Priorities == {"low", "medium", "high"}

\* A JSON object as JSON.parse returns it: the value of each FeedbackAIData
\* field (Undefined when the key is absent). Numbers are in hundredths, so
\* confidence 0.95 is Num(95).
Obj(f) == [k |-> "object", f |-> f]

\* The reply the README shows, for a category and a priority.
GoodFields(cat, pri) ==
    [title                  |-> Str("Export button not working"),
     short_summary          |-> Str("The export button has no effect."),
     key_details            |-> Arr,
     suggested_category     |-> Str(cat),
     suggested_feature_area |-> Str("export"),
     suggested_priority     |-> Str(pri),
     steps                  |-> Arr,
     expected               |-> Null,
     confidence             |-> Num(95),
     clarifying_questions   |-> Arr]

\* Values a model may put in a field, or leave out.
FieldValues ==
    {Undefined, Null, Str(""), Str("urgent"), Num(0), Num(7), Num(500),
     Num(-5), Arr}

\* A string that quotes a snippet between code fences: the text Sending,
\* a fence, an opening and a closing brace, a fence, the text crashes.
Code == Str("Sending <fence>{}<fence> crashes")

\* The object {}.
EmptyObject == Obj([fld \in AIFields |-> Undefined])

\* Objects a reply may hold: the good ones, the good one with one field
\* changed, and the good one with a title that quotes a snippet.
ReplyObjects ==
    {Obj(GoodFields(c, p)) : c \in Categories, p \in Priorities}
    \cup {Obj([GoodFields("bug", "high") EXCEPT ![fld] = v]) :
             fld \in AIFields, v \in FieldValues}
    \cup {Obj([GoodFields("bug", "high") EXCEPT !.title = Code])}

\* JSON values a reply may hold.
JsonValues == ReplyObjects \cup {Null, Num(42), Arr}

\* The text of a reply, as a sequence of tokens: a code fence (```), the
\* word json, whitespace, other prose, or the text of one JSON value. The
\* text of an object with a string that quotes a snippet is cut at the
\* fences inside the string: its part up to the first fence (JsonOpen,
\* which starts with a brace), the snippet between fences, and its part
\* after the second fence (JsonClose, which ends with a brace).
Fence == [t |-> "fence"]
Tag == [t |-> "json"]
Ws == [t |-> "ws"]
Prose == [t |-> "prose"]
Json(v) == [t |-> "value", v |-> v]
JsonOpen(v) == [t |-> "open", v |-> v]
JsonClose(v) == [t |-> "close", v |-> v]

\* The value is an object with a string that quotes a snippet.
Quotes(v) == v.k = "object" /\ \E fld \in AIFields : v.f[fld] = Code

\* JSON.stringify(v), as tokens.
TextOf(v) ==
    IF Quotes(v) THEN <<JsonOpen(v), Fence, Json(EmptyObject), Fence, JsonClose(v)>>
    ELSE <<Json(v)>>

\* The place of the JSON value in the shape of a reply.
Slot == [t |-> "slot"]

Shapes == {Fence, Tag, Ws, Prose, Slot}

\* The reply of shape sh around the JSON value v.
RECURSIVE Fill(_, _)
Fill(sh, v) ==
    IF sh = << >> THEN << >>
    ELSE (IF Head(sh) = Slot THEN TextOf(v) ELSE <<Head(sh)>>) \o Fill(Tail(sh), v)

\* The token is the text of a JSON object: it starts with { and ends with }.
IsBraced(tok) == tok.t = "value" /\ tok.v.k = "object"

\* The token starts with {, ends with }.
StartsBrace(tok) == IsBraced(tok) \/ tok.t = "open"
EndsBrace(tok) == IsBraced(tok) \/ tok.t = "close"

\* String.prototype.trim on a token sequence.
RECURSIVE TrimLeft(_)
TrimLeft(s) == IF s # << >> /\ Head(s) = Ws THEN TrimLeft(Tail(s)) ELSE s

RECURSIVE TrimRight(_)
TrimRight(s) ==
    IF s # << >> /\ s[Len(s)] = Ws THEN TrimRight(SubSeq(s, 1, Len(s) - 1)) ELSE s

Trim(s) == TrimRight(TrimLeft(s))

\* First position at or after i that holds no whitespace (Len(s) + 1 if none).
RECURSIVE SkipWs(_, _)
SkipWs(s, i) == IF i <= Len(s) /\ s[i] = Ws THEN SkipWs(s, i + 1) ELSE i

\* jsonText.match(/```(?:json)?\s*(\{[\s\S]*\})\s*```/) started at the fence
\* at position i: the first position of the captured group, 0 if the pattern
\* cannot start there.
GroupStart(s, i) ==
    IF i > Len(s) \/ s[i] # Fence THEN 0
    ELSE LET j == IF i + 1 <= Len(s) /\ s[i + 1] = Tag THEN i + 2 ELSE i + 1
             p == SkipWs(s, j)
         IN  IF p <= Len(s) /\ StartsBrace(s[p]) THEN p ELSE 0

\* Positions where the group starting at p may end: a closing brace followed
\* by optional whitespace and a fence.
GroupEnds(s, p) ==
    {q \in p..Len(s) :
        /\ EndsBrace(s[q])
        /\ LET e == SkipWs(s, q + 1) IN e <= Len(s) /\ s[e] = Fence}

Max(S) == CHOOSE x \in S : \A y \in S : y <= x

Min(S) == CHOOSE x \in S : \A y \in S : x <= y

\* The captured group of the leftmost match (the greedy [\s\S]* runs to the
\* last closing brace that a fence follows), or << >> when nothing matches.
FencedGroup(s) ==
    LET starts == {i \in 1..Len(s) :
                      GroupStart(s, i) # 0 /\ GroupEnds(s, GroupStart(s, i)) # {}}
    IN  IF starts = {} THEN << >>
        ELSE LET p == GroupStart(s, Min(starts))
             IN  SubSeq(s, p, Max(GroupEnds(s, p)))

\* JSON.parse: the text of exactly one JSON value, whitespace around it
\* allowed; anything else is a SyntaxError.
JsonParse(s) ==
    LET t == Trim(s)
    IN  IF Len(t) = 1 /\ t[1].t = "value"
        THEN [ok |-> TRUE, v |-> t[1].v]
        ELSE IF Len(t) = 5 /\ t[1].t = "open" /\ t = TextOf(t[1].v)
        THEN [ok |-> TRUE, v |-> t[1].v]
        ELSE [ok |-> FALSE, v |-> Undefined]

\* aiData.<name> on a parsed value that is not null.
Get(v, name) == IF v.k = "object" THEN v.f[name] ELSE Undefined

\* [...].includes(x)
Includes(S, x) == x.k = "string" /\ x.s \in S

\* Mutant: the structure test forgets the priority.
StructureInvalidNoPriority(v) ==
    \/ ~Truthy(Get(v, "title"))
    \/ ~Truthy(Get(v, "short_summary"))
    \/ Get(v, "key_details").k # "array"
    \/ ~Includes(Categories, Get(v, "suggested_category"))
    \/ ~Truthy(Get(v, "suggested_feature_area"))

\* The structure test of analyzeFeedback: TRUE when the value is rejected.
StructureInvalid(v) ==
    \/ ~Truthy(Get(v, "title"))
    \/ ~Truthy(Get(v, "short_summary"))
    \/ Get(v, "key_details").k # "array"
    \/ ~Includes(Categories, Get(v, "suggested_category"))
    \/ ~Truthy(Get(v, "suggested_feature_area"))
    \/ ~Includes(Priorities, Get(v, "suggested_priority"))

\* What generateContent can produce: it rejects, or it resolves to a text.
\* Skipped stands for a call made without an API key, which returns before
\* the backend is asked.
Threw == [k |-> "throw"]
Text(s) == [k |-> "text", toks |-> s]
Skipped == [k |-> "skipped"]

\* An exception: the outcome of a block that throws, of a promise that rejects.
Raised == [k |-> "raised"]

\* The try block of analyzeFeedback once generateContent has settled with
\* `reply`: the value it returns, or Raised when a statement in it throws
\* (the rejected call, the SyntaxError of JSON.parse, the TypeError of
\* reading a property of null).
TryBlock(reply) ==
    IF reply.k = "throw" THEN Raised
    ELSE IF reply.toks = << >> THEN Null
    ELSE LET trimmed == Trim(reply.toks)
             group == FencedGroup(trimmed)
             jsonText == IF group # << >> THEN group ELSE trimmed
             parsed == JsonParse(jsonText)
         IN  IF ~parsed.ok THEN Raised
             ELSE IF parsed.v.k = "null" THEN Raised
             ELSE IF StructureInvalid(parsed.v) THEN Null
             ELSE parsed.v

\* Mutant: nothing catches what the try block throws.
analyzeFeedbackNoCatch(reply) ==
    IF reply.k = "skipped" THEN Null ELSE TryBlock(reply)

\* analyzeFeedback: the value the promise resolves to, or Raised if it
\* rejects. The catch block turns every exception into null.
analyzeFeedback(reply) ==
    IF reply.k = "skipped" THEN Null
    ELSE LET result == TryBlock(reply)
         IN  IF result = Raised THEN Null ELSE result

\* Longest reply text explored, in tokens.
MaxLen == 4

RECURSIVE SeqsUpTo(_, _)
SeqsUpTo(S, n) ==
    IF n = 0 THEN {<< >>}
    ELSE LET shorter == SeqsUpTo(S, n - 1)
         IN  shorter \cup {Append(s, x) : s \in {t \in shorter : Len(t) = n - 1}, x \in S}

\* The reply texts of at most n tokens.
ReplyTexts(n) == {Text(Fill(sh, v)) : sh \in SeqsUpTo(Shapes, n), v \in JsonValues}

\* The marker of a call that has not resolved.
Pending == [k |-> "pending"]

\* generateContent settles.
Generate ==
    /\ aiReply = Pending
    /\ aiReply' \in ReplyTexts(MaxLen) \cup {Threw, Skipped}
    /\ UNCHANGED <<limiterVars, aiResult, req, widget>>

\* analyzeFeedback resolves.
Analyze ==
    /\ aiReply # Pending
    /\ aiResult = Pending
    /\ aiResult' = analyzeFeedback(aiReply)
    /\ UNCHANGED <<limiterVars, aiReply, req, widget>>

-----------------------------------------------------------------------------
(* Ingestion endpoint: POST                                                *)

\* Concurrent invocations of POST.
MaxReq == 2

Slots == 1..MaxReq

\* NextResponse.json(body, {status}); the status defaults to 200.
Response(status, body) == [status |-> status, body |-> body]

TooManyRequests == Response(429, [error |-> "Too many requests"])
MessageRequired == Response(400, [error |-> "Message is required"])
FailedToSave == Response(500, [error |-> "Failed to save feedback"])
InternalError == Response(500, [error |-> "Internal server error"])
BotAck == Response(200, [id |-> Str("fake-id"), message |-> "Feedback sent"])
Received(id, aiData) ==
    Response(200, [id |-> id, ai_data |-> aiData, message |-> "Feedback received"])

NoResponse == [status |-> 0, body |-> [none |-> TRUE]]

\* Request headers that decide the client identity: x-forwarded-for as the
\* list of its comma-separated values, x-real-ip.
NoHeaders == [xff |-> Null, realip |-> Null]

\* The value of an x-forwarded-for header, split at its commas.
List(items) == [k |-> "list", items |-> items]

\* The headers of the requests sent to the endpoint under load: one client
\* behind a proxy.
Headers ==
    {[NoHeaders EXCEPT !.xff = List(<<"203.0.113.7", "10.0.0.1">>)]}

\* Every combination of the two headers: x-forwarded-for absent, empty,
\* with an empty first value, with one value, with two; x-real-ip absent,
\* empty, set.
AllHeaders ==
    {[xff |-> x, realip |-> p] :
        x \in {Null, List(<<"">>), List(<<"", "10.0.0.1">>), List(<<"203.0.113.7">>),
               List(<<"203.0.113.7", "10.0.0.1">>)},
        p \in {Null, Str(""), Str("198.51.100.9")}}

\* Mutant: the direct peer address is preferred to the forwarded one.
ClientIpPeerFirst(h) ==
    LET first == IF h.xff.k = "list" /\ h.xff.items # << >> THEN h.xff.items[1] ELSE ""
    IN  IF Truthy(h.realip) THEN h.realip.s
        ELSE IF first # "" THEN first
        ELSE "unknown"

\* request.headers.get('x-forwarded-for')?.split(',')[0] ||
\* request.headers.get('x-real-ip') || 'unknown'
ClientIp(h) ==
    LET first == IF h.xff.k = "list" /\ h.xff.items # << >> THEN h.xff.items[1] ELSE ""
    IN  IF first # "" THEN first
        ELSE IF Truthy(h.realip) THEN h.realip.s
        ELSE "unknown"

\* Form fields as formData.get returns them. Text is a sequence of Ws (a
\* whitespace character) and Prose (any other text).
Blank == Chars(<<Ws>>)
Words == Chars(<<Ws, Prose, Ws>>)

\* 5 * 1024 * 1024, the size the widget refuses to attach.
MaxScreenshot == 5 * 1024 * 1024

BaseForm ==
    [website |-> Chars(<< >>), message |-> Words, screenshot |-> Null, project |-> Null]

\* Forms that pass the honeypot and the message test.
ValidForms ==
    {BaseForm,
     [BaseForm EXCEPT !.website = Null, !.screenshot = File(0), !.project = Str("docs")],
     [BaseForm EXCEPT !.website = Blank, !.screenshot = File(2048), !.project = Str("")],
     [BaseForm EXCEPT !.screenshot = File(MaxScreenshot + 1)]}

Forms ==
    ValidForms
    \cup {[BaseForm EXCEPT !.message = m] : m \in {Null, Chars(<< >>), Blank}}
    \cup {[BaseForm EXCEPT !.message = Blank, !.screenshot = File(2048),
                             !.project = Str("docs")]}
    \cup {[BaseForm EXCEPT !.website = Words, !.message = m, !.screenshot = f] :
             m \in {Words, Blank}, f \in {Null, File(2048)}}

\* A request body that request.formData() cannot parse.
Malformed == [k |-> "malformed"]

\* Bodies of the requests that run beside the one in slot 1.
BackgroundBodies == {[BaseForm EXCEPT !.website = Words]}

\* Slot 1 takes every body; the other slots carry background traffic.
BodiesOf(r) == IF r = 1 THEN Forms \cup {Malformed} ELSE BackgroundBodies

\* Mutant: the trap value is tested without trimming.
IsBotNoTrim(honeypot) == Truthy(honeypot)

\* honeypot && honeypot.trim().length > 0
IsBot(honeypot) == Truthy(honeypot) /\ Len(Trim(honeypot.c)) > 0

\* Mutant: the message is tested without trimming (!messageRaw).
MessageMissingNoTrim(messageRaw) == ~Truthy(messageRaw)

\* !messageRaw?.trim()
MessageMissing(messageRaw) ==
    IF messageRaw.k = "chars" THEN Trim(messageRaw.c) = << >> ELSE TRUE

\* screenshot && screenshot.size > 0
HasScreenshot(screenshot) == screenshot.k = "file" /\ screenshot.size > 0

\* A slot with no invocation in it.
Idle ==
    [pc |-> "idle", body |-> Null, screenshotUrl |-> Null, screenshotBase64 |-> Null,
     reply |-> Pending, aiData |-> Null, row |-> Null, response |-> NoResponse,
     mail |-> "none", uploads |-> 0, aiCalls |-> 0, inserts |-> 0, mails |-> 0,
     steps |-> << >>, cancelled |-> FALSE, headers |-> NoHeaders,
     aiImage |-> Undefined, mailData |-> Null]

\* The steps of the pipeline, in the order POST has them in its text.
Pipeline ==
    <<"rateLimit", "botFilter", "validation", "upload", "classification", "insert",
      "notification">>

\* The invocation enters a step of the pipeline (history).
Enter(q, step) == [q EXCEPT !.steps = Append(@, step)]

\* The invocation in slot r ends with the given response.
Respond(q, resp) == [q EXCEPT !.pc = "done", !.response = resp]

\* Lines 143-167 up to the next await: with a key, analyzeFeedback is called
\* and suspends in generateContent; without one, the insert is issued.
Classify(q, geminiKey) ==
    IF geminiKey
    THEN [Enter(q, "classification") EXCEPT
             !.pc = "generateContent", !.aiCalls = @ + 1,
             !.aiImage = IF Truthy(q.screenshotBase64) THEN q.screenshotBase64
                         ELSE Undefined]
    ELSE [Enter(q, "insert") EXCEPT !.pc = "insert", !.inserts = @ + 1]

\* A request with headers h and the given body arrives: POST runs to its
\* first await (request.formData()).
Arrive(r, h, body) ==
    /\ req[r].pc = "idle"
    /\ CanRecord(ClientIp(h), now)
    /\ LET ip == ClientIp(h)
           res == checkRateLimit(rateLimitMap, ip, now)
           q == Enter([req[r] EXCEPT !.body = body, !.headers = h], "rateLimit")
       IN  /\ rateLimitMap' = res.map
           /\ win' = [win EXCEPT ![ip] = Record(@, now, res.admit)]
           /\ req' = [req EXCEPT ![r] =
                        IF res.admit THEN [q EXCEPT !.pc = "formData"]
                        ELSE Respond(q, TooManyRequests)]
    /\ UNCHANGED <<now, aiVars, widget>>

\* Mutant: the message is validated before the honeypot is looked at.
ScreenValidateFirst(q, geminiKey) ==
    LET validated == Enter(q, "validation")
        filtered == Enter(validated, "botFilter")
    IN  IF MessageMissing(q.body.message) THEN Respond(validated, MessageRequired)
        ELSE IF IsBot(q.body.website) THEN Respond(filtered, BotAck)
        ELSE IF HasScreenshot(q.body.screenshot)
        THEN [Enter(filtered, "upload") EXCEPT !.pc = "arrayBuffer"]
        ELSE Classify(filtered, geminiKey)

\* Mutant: the screenshot is taken up before the message is validated.
ScreenUploadFirst(q, geminiKey) ==
    LET filtered == Enter(q, "botFilter")
        validated == Enter(filtered, "validation")
    IN  IF IsBot(q.body.website) THEN Respond(filtered, BotAck)
        ELSE IF HasScreenshot(q.body.screenshot)
        THEN [Enter(filtered, "upload") EXCEPT !.pc = "arrayBuffer"]
        ELSE IF MessageMissing(q.body.message) THEN Respond(validated, MessageRequired)
        ELSE Classify(validated, geminiKey)

\* Lines 98-121 on the parsed form, to the next await or to a response.
Screen(q, geminiKey) ==
    LET filtered == Enter(q, "botFilter")
        validated == Enter(filtered, "validation")
    IN  IF IsBot(q.body.website) THEN Respond(filtered, BotAck)
        ELSE IF MessageMissing(q.body.message) THEN Respond(validated, MessageRequired)
        ELSE IF HasScreenshot(q.body.screenshot)
        THEN [Enter(validated, "upload") EXCEPT !.pc = "arrayBuffer"]
        ELSE Classify(validated, geminiKey)

\* Mutant: the parser's exception reaches the caller with its own text.
FormDataUncaught(r, geminiKey) ==
    /\ req[r].pc = "formData"
    /\ req' = [req EXCEPT ![r] =
                 IF @.body = Malformed
                 THEN Respond(@, Response(500, [error |-> "TypeError: Failed to parse body as FormData."]))
                 ELSE Screen(@, geminiKey)]
    /\ UNCHANGED <<limiterVars, aiVars, widget>>

\* Mutant: a request that turns out to be invalid gets its unit back.
FormDataRefund(r, geminiKey) ==
    /\ req[r].pc = "formData"
    /\ LET q == IF req[r].body = Malformed THEN Respond(req[r], InternalError)
                ELSE Screen(req[r], geminiKey)
           ip == ClientIp(req[r].headers)
       IN  /\ req' = [req EXCEPT ![r] = q]
           /\ rateLimitMap' =
                 IF q.response = MessageRequired
                 THEN [rateLimitMap EXCEPT ![ip].count = @ - 1]
                 ELSE rateLimitMap
    /\ UNCHANGED <<now, win, aiVars, widget>>

\* request.formData() settles: it rejects on a body that is no form (the
\* catch block answers), else the handler runs on to its next await.
FormData(r, geminiKey) ==
    /\ req[r].pc = "formData"
    /\ req' = [req EXCEPT ![r] =
                 IF @.body = Malformed THEN Respond(@, InternalError)
                 ELSE Screen(@, geminiKey)]
    /\ UNCHANGED <<limiterVars, aiVars, widget>>

\* screenshot.arrayBuffer() settles; on success the upload is issued.
ArrayBuffer(r, ok) ==
    /\ req[r].pc = "arrayBuffer"
    /\ req' = [req EXCEPT ![r] =
                 IF ok THEN [@ EXCEPT !.pc = "upload", !.uploads = @ + 1]
                 ELSE Respond(@, InternalError)]
    /\ UNCHANGED <<limiterVars, aiVars, widget>>

UploadOutcomes == {"stored", "error", "throw"}

\* The storage upload settles: lines 132-147/155.
Upload(r, outcome, geminiKey) ==
    /\ req[r].pc = "upload"
    /\ req' = [req EXCEPT ![r] =
                 IF outcome = "throw" THEN Respond(@, InternalError)
                 ELSE Classify(
                        [@ EXCEPT !.screenshotUrl =
                                     IF outcome = "stored" THEN Str("public-url") ELSE Null,
                                  !.screenshotBase64 = Str("data:image/png;base64")],
                        geminiKey)]
    /\ UNCHANGED <<limiterVars, aiVars, widget>>

\* Replies of the AI backend to the endpoint's calls.
Replies ==
    {Threw,
     Text(<<Prose>>),
     Text(<<Json(Obj([GoodFields("bug", "high") EXCEPT !.title = Undefined]))>>),
     Text(<<Json(Obj([GoodFields("bug", "high") EXCEPT !.confidence = Num(500)]))>>),
     Text(<<Fence, Tag, Ws, Json(Obj(GoodFields("bug", "high"))), Ws, Fence>>)}

\* generateContent settles with reply; analyzeFeedback resolves and the
\* insert is issued (lines 147-167).
GenerateContent(r, reply) ==
    /\ req[r].pc = "generateContent"
    /\ req' = [req EXCEPT ![r] =
                 [Enter(@, "insert") EXCEPT
                        !.pc = "insert", !.reply = reply,
                        !.aiData = analyzeFeedback(reply), !.inserts = @ + 1]]
    /\ UNCHANGED <<limiterVars, aiVars, widget>>

\* Mutant: without a stored object, the record keeps the image inline.
RowInlineImage(r, q) ==
    [id |-> Uuid(r), slot |-> r, message_raw |-> q.body.message,
     screenshot_url |-> IF q.screenshotUrl = Null THEN q.screenshotBase64
                        ELSE q.screenshotUrl,
     ai_data |-> q.aiData,
     project_id |-> IF Truthy(q.body.project) THEN q.body.project ELSE Null,
     status |-> "new"]

\* The row handed to the storage collaborator, with the id it assigns.
Row(r, q) ==
    [id |-> Uuid(r), slot |-> r, message_raw |-> q.body.message,
     screenshot_url |-> q.screenshotUrl, ai_data |-> q.aiData,
     project_id |-> IF Truthy(q.body.project) THEN q.body.project ELSE Null,
     status |-> "new"]

InsertOutcomes == {"inserted", "error", "throw"}

\* sendNotificationEmail is called with the record's id, the message and
\* the classification, and runs up to its first await: nothing is sent
\* unless both RESEND_API_KEY and FEEDBACK_NOTIFY_EMAIL are set.
Notify(q, resendConfigured) ==
    [Enter(q, "notification") EXCEPT
        !.mails = @ + 1,
        !.mailData = [id         |-> IF q.row = Null THEN Undefined ELSE q.row.id,
                      message_raw |-> q.body.message,
                      ai_data     |-> q.aiData],
        !.mail = IF resendConfigured THEN "pending" ELSE "skipped"]

\* Mutant: the notification is dispatched before the error is looked at.
InsertNotifyFirst(r, outcome, resendConfigured) ==
    /\ req[r].pc = "insert"
    /\ req' = [req EXCEPT ![r] =
                 CASE outcome = "throw" -> Respond(@, InternalError)
                   [] outcome = "error" -> Respond(Notify(@, resendConfigured), FailedToSave)
                   [] OTHER ->
                        LET row == Row(r, @)
                        IN  Respond(Notify([@ EXCEPT !.row = row], resendConfigured),
                                    Received(row.id, @.aiData))]
    /\ UNCHANGED <<limiterVars, aiVars, widget>>

\* Mutant: the response carries a made-up id instead of the record's.
InsertOtherId(r, outcome, resendConfigured) ==
    /\ req[r].pc = "insert"
    /\ req' = [req EXCEPT ![r] =
                 CASE outcome = "throw" -> Respond(@, InternalError)
                   [] outcome = "error" -> Respond(@, FailedToSave)
                   [] OTHER ->
                        LET row == Row(r, @)
                        IN  Respond(Notify([@ EXCEPT !.row = row], resendConfigured),
                                    Received(Uuid(0), @.aiData))]
    /\ UNCHANGED <<limiterVars, aiVars, widget>>

\* The insert settles: lines 169-186.
Insert(r, outcome, resendConfigured) ==
    /\ req[r].pc = "insert"
    /\ req' = [req EXCEPT ![r] =
                 CASE outcome = "throw" -> Respond(@, InternalError)
                   [] outcome = "error" -> Respond(@, FailedToSave)
                   [] OTHER ->
                        LET row == Row(r, @)
                        IN  Respond(Notify([@ EXCEPT !.row = row], resendConfigured),
                                    Received(row.id, @.aiData))]
    /\ UNCHANGED <<limiterVars, aiVars, widget>>

\* Mutant: a failed notification replaces the response.
MailPropagates(r, sent) ==
    /\ req[r].mail = "pending"
    /\ req' = [req EXCEPT ![r] =
                 IF sent THEN [@ EXCEPT !.mail = "sent"]
                 ELSE [@ EXCEPT !.mail = "failed", !.response = InternalError]]
    /\ UNCHANGED <<limiterVars, aiVars, widget>>

\* The notification email is sent, or fails and is logged.
Mail(r, sent) ==
    /\ req[r].mail = "pending"
    /\ req' = [req EXCEPT ![r].mail = IF sent THEN "sent" ELSE "failed"]
    /\ UNCHANGED <<limiterVars, aiVars, widget>>

\* The client abandons the request while POST is suspended before the
\* insert is issued. POST never reads request.signal and registers no abort
\* handler: the invocation goes on as if nothing had happened.
Cancel(r) ==
    /\ req[r].pc \in {"formData", "arrayBuffer", "upload", "generateContent"}
    /\ ~req[r].cancelled
    /\ req' = [req EXCEPT ![r].cancelled = TRUE]
    /\ UNCHANGED <<limiterVars, aiVars, widget>>

\* The response has been delivered; the slot takes the next request.
Finish(r) ==
    /\ req[r].pc = "done"
    /\ req[r].mail # "pending"
    /\ req' = [req EXCEPT ![r] = Idle]
    /\ UNCHANGED <<limiterVars, aiVars, widget>>

-----------------------------------------------------------------------------
(* Feedback widget: FeedbackWidget                                         *)

\* Sends the widget makes in one run.
MaxSends == 3

\* The state of the component when it is mounted (the useState defaults),
\* with the sends in flight: handlers suspended in fetch (fetching) and in
\* response.json() (parsing), the requests issued (sends), and how the
\* latest handler ended.
Mounted ==
    [isOpen |-> FALSE, message |-> Chars(<< >>), screenshotFile |-> Null,
     isSending |-> FALSE, isSent |-> FALSE, aiResponse |-> Null,
     fetching |-> 0, parsing |-> 0, sends |-> 0, last |-> "none"]

\* Texts the user types.
Messages == {Chars(<< >>), Blank, Words}

\* Images the user picks.
Images == {File(2048), File(MaxScreenshot), File(MaxScreenshot + 1)}

Thanks == Str("Thank you for your feedback!")

\* The actions below change nothing but the widget.
ServerUnchanged == UNCHANGED <<limiterVars, aiVars, req>>

\* The floating button is clicked.
Open ==
    /\ ~widget.isOpen
    /\ widget' = [widget EXCEPT !.isOpen = TRUE]
    /\ ServerUnchanged

\* The text area changes: setMessage(e.target.value).
SetMessage(m) ==
    /\ widget.isOpen /\ ~widget.isSent
    /\ widget' = [widget EXCEPT !.message = m]
    /\ ServerUnchanged

\* handleScreenshotSelect(file)
handleScreenshotSelect(file) ==
    /\ widget.isOpen /\ ~widget.isSent
    /\ widget' = IF file.size > 5 * 1024 * 1024 THEN widget
                  ELSE [widget EXCEPT !.screenshotFile = file]
    /\ ServerUnchanged

\* handleClose, with the reset its timer runs when the thanks were showing.
handleClose ==
    /\ widget.isOpen
    /\ widget' = IF widget.isSent
                  THEN [widget EXCEPT !.isOpen = FALSE, !.message = Chars(<< >>),
                                      !.screenshotFile = Null, !.isSent = FALSE,
                                      !.aiResponse = Null]
                  ELSE [widget EXCEPT !.isOpen = FALSE]
    /\ ServerUnchanged

\* Mutant: handleSend does not look at isSending.
handleSendNoBusyTest ==
    /\ widget.sends < MaxSends
    /\ widget' = IF MessageMissing(widget.message) THEN widget
                  ELSE [widget EXCEPT !.isSending = TRUE, !.fetching = @ + 1,
                                      !.sends = @ + 1]
    /\ ServerUnchanged

\* handleSend up to its await of fetch. React commits the state an event
\* handler sets before it dispatches the next event, so the handler reads
\* the state the previous one left.
handleSend ==
    /\ widget.sends < MaxSends
    /\ widget' = IF MessageMissing(widget.message) \/ widget.isSending THEN widget
                  ELSE [widget EXCEPT !.isSending = TRUE, !.fetching = @ + 1,
                                      !.sends = @ + 1]
    /\ ServerUnchanged

\* The catch block and the finally block of handleSend.
Caught(w, how) ==
    [w EXCEPT !.aiResponse = Thanks, !.isSent = TRUE, !.isSending = FALSE, !.last = how]

FetchOutcomes == {"ok", "status", "throw"}

\* fetch settles: with a 2xx response the handler goes on to
\* response.json(); a response that is not ok is thrown, a rejection is
\* thrown, and both end in catch and finally.
Fetch(outcome) ==
    /\ widget.fetching > 0
    /\ widget' = IF outcome = "ok"
                  THEN [widget EXCEPT !.fetching = @ - 1, !.parsing = @ + 1]
                  ELSE Caught([widget EXCEPT !.fetching = @ - 1], outcome)
    /\ ServerUnchanged

\* Bodies of a 2xx response: the placeholder, a record without and with a
\* classification; Threw when the body is no JSON.
Results ==
    {BotAck.body, Received(Uuid(1), Null).body,
     Received(Uuid(1), Obj(GoodFields("bug", "high"))).body}

\* response.json() settles and the handler runs to its end.
ResponseJson(result) ==
    /\ widget.parsing > 0
    /\ LET w == [widget EXCEPT !.parsing = @ - 1]
           aiData == IF "ai_data" \in DOMAIN result THEN result.ai_data ELSE Undefined
       IN  widget' =
             IF result = Threw THEN Caught(w, "json")
             ELSE [w EXCEPT !.aiResponse =
                               IF Truthy(aiData) /\ Truthy(aiData.f.short_summary)
                               THEN aiData.f.short_summary ELSE Thanks,
                            !.isSent = TRUE, !.isSending = FALSE, !.last = "ok"]
    /\ ServerUnchanged

-----------------------------------------------------------------------------
(* Specifications                                                          *)

\* The module is loaded: the table is empty, nothing has been called.
Init ==
    /\ now = 0
    /\ rateLimitMap = << >>
    /\ win = [ip \in Peers |-> NoWindow]
    /\ aiReply = Pending
    /\ aiResult = Pending
    /\ req = [r \in Slots |-> Idle]
    /\ widget = Mounted

\* The rate limiter alone, called directly.
NextRL ==
    \/ Tick
    \/ \E ip \in Ips : Call(ip)

SpecRL == Init /\ [][NextRL]_vars

\* The classification client alone.
NextAI ==
    \/ Generate
    \/ Analyze

SpecAI == Init /\ [][NextAI]_vars

\* The endpoint under concurrent requests.
Next ==
    \/ Tick
    \/ \E r \in Slots :
          \/ \E h \in Headers, body \in BodiesOf(r) : Arrive(r, h, body)
          \/ \E geminiKey \in BOOLEAN : FormData(r, geminiKey)
          \/ \E ok \in BOOLEAN : ArrayBuffer(r, ok)
          \/ \E outcome \in UploadOutcomes, geminiKey \in BOOLEAN :
                Upload(r, outcome, geminiKey)
          \/ \E reply \in Replies : GenerateContent(r, reply)
          \/ \E outcome \in InsertOutcomes, resendConfigured \in BOOLEAN :
                Insert(r, outcome, resendConfigured)
          \/ \E sent \in BOOLEAN : Mail(r, sent)
          \/ Finish(r)

Spec == Init /\ [][Next]_vars

\* The endpoint with one request at a time, under the scheduling the event
\* loop gives: a settled promise's continuation runs. The storage
\* collaborator and the body parser settle; nothing makes the AI backend
\* answer.
Settle(r) ==
    \/ \E geminiKey \in BOOLEAN : FormData(r, geminiKey)
    \/ \E ok \in BOOLEAN : ArrayBuffer(r, ok)
    \/ \E outcome \in UploadOutcomes, geminiKey \in BOOLEAN : Upload(r, outcome, geminiKey)
    \/ \E outcome \in InsertOutcomes, resendConfigured \in BOOLEAN :
          Insert(r, outcome, resendConfigured)

NextOne ==
    \/ \E h \in Headers, body \in BodiesOf(1) : Arrive(1, h, body)
    \/ Settle(1)
    \/ \E reply \in Replies : GenerateContent(1, reply)
    \/ \E sent \in BOOLEAN : Mail(1, sent)
    \/ Finish(1)

FairSpec ==
    Init /\ [][NextOne]_vars /\ WF_vars(Settle(1))

\* The endpoint with one request at a time, which its client may abandon.
NextCancel ==
    \/ NextOne
    \/ Cancel(1)

SpecCancel == Init /\ [][NextCancel]_vars

\* The endpoint receiving, one at a time, requests with every combination
\* of identity headers; their bodies are the background traffic's.
NextId ==
    \/ \E h \in AllHeaders, body \in BackgroundBodies : Arrive(1, h, body)
    \/ \E geminiKey \in BOOLEAN : FormData(1, geminiKey)
    \/ Finish(1)

SpecId == Init /\ [][NextId]_vars

\* The widget in the hands of its user, the endpoint answering.
NextUI ==
    \/ Open
    \/ \E m \in Messages : SetMessage(m)
    \/ \E file \in Images : handleScreenshotSelect(file)
    \/ handleClose
    \/ handleSend
    \/ \E outcome \in FetchOutcomes : Fetch(outcome)
    \/ \E result \in Results \cup {Threw} : ResponseJson(result)

SpecUI == Init /\ [][NextUI]_vars

-----------------------------------------------------------------------------
(* Claims                                                                  *)

\* The effects of the invocation in slot r so far.
NoEffects(q) ==
    q.uploads = 0 /\ q.aiCalls = 0 /\ q.inserts = 0 /\ q.mails = 0 /\ q.row = Null

\* The body is a form whose honeypot field holds more than whitespace.
TrapFilled(body) ==
    /\ body # Null /\ body # Malformed
    /\ body.website.k = "chars"
    /\ \E i \in 1..Len(body.website.c) : body.website.c[i] # Ws

\* The body is a form whose message is missing, empty or only whitespace.
MessageBlank(body) ==
    /\ body # Null /\ body # Malformed
    /\ \/ body.message.k # "chars"
       \/ \A i \in 1..Len(body.message.c) : body.message.c[i] = Ws

\* C1: for every identity, at most RATE_LIMIT calls are admitted in the
\* window that opens at the first admitted call and lasts RATE_WINDOW, and
\* the call after the RATE_LIMIT-th in that window is rejected.
C1_WindowLimit ==
    \A ip \in Ips :
        /\ win[ip].admitted <= RATE_LIMIT
        /\ win[ip].calls > RATE_LIMIT => ~win[ip].last

\* C1 witness: the eleventh call of a window, made later in it, was rejected.
C1_Witness ==
    \E ip \in Ips :
        /\ win[ip].calls = RATE_LIMIT + 1
        /\ win[ip].admitted = RATE_LIMIT
        /\ ~win[ip].last
        /\ now > win[ip].start

\* C2 as stated: a submission whose honeypot is filled never has an effect
\* and is always answered 200 with a success body, whatever the state of the
\* rate limiter.
C2_AlwaysAcknowledged ==
    \A r \in Slots :
        TrapFilled(req[r].body) =>
            /\ NoEffects(req[r])
            /\ req[r].pc = "done" =>
                  /\ req[r].response.status = 200
                  /\ "error" \notin DOMAIN req[r].response.body

\* C2 amended: a submission whose honeypot is filled never has an effect,
\* and is answered 200 with the placeholder body when the rate limiter
\* admits it, 429 when it does not.
C2_TrappedNoEffects ==
    \A r \in Slots :
        TrapFilled(req[r].body) =>
            /\ NoEffects(req[r])
            /\ req[r].pc \in {"formData", "done"}
            /\ req[r].pc = "done" => req[r].response \in {BotAck, TooManyRequests}

\* C2 witness: a trapped submission with a valid message and a screenshot
\* was answered with the placeholder.
C2_Witness ==
    \E r \in Slots :
        /\ TrapFilled(req[r].body)
        /\ ~MessageBlank(req[r].body)
        /\ req[r].body.screenshot # Null
        /\ req[r].response = BotAck

\* The two bodies differ in the honeypot field only.
SameButTrap(b1, b2) ==
    /\ b1 # Null /\ b1 # Malformed /\ b2 # Null /\ b2 # Malformed
    /\ [b1 EXCEPT !.website = Null] = [b2 EXCEPT !.website = Null]

\* C3: the answer to a trapped submission and the answer to the same
\* submission accepted without the trap have the same status, the same keys
\* and the same message text.
C3_Indistinguishable ==
    \A r1, r2 \in Slots :
        /\ req[r1].response = BotAck
        /\ req[r2].row # Null
        /\ SameButTrap(req[r1].body, req[r2].body)
        => /\ req[r1].response.status = req[r2].response.status
           /\ DOMAIN req[r1].response.body = DOMAIN req[r2].response.body
           /\ req[r1].response.body.message = req[r2].response.body.message

\* C4 as stated: a submission with a blank message is always answered 400,
\* whatever its other fields, and has no effect.
C4_AlwaysRejected ==
    \A r \in Slots :
        MessageBlank(req[r].body) =>
            /\ NoEffects(req[r])
            /\ req[r].pc = "done" => req[r].response.status = 400

\* C4 amended: a submission with a blank message has no effect; once the
\* rate limiter admits it, it is answered 400 unless the honeypot is
\* filled, and then with the placeholder.
C4_BlankRejected ==
    \A r \in Slots :
        MessageBlank(req[r].body) =>
            /\ NoEffects(req[r])
            /\ req[r].pc \in {"formData", "done"}
            /\ req[r].pc = "done" =>
                  \/ req[r].response = TooManyRequests
                  \/ req[r].response =
                        IF TrapFilled(req[r].body) THEN BotAck ELSE MessageRequired

\* C4 witness: a whitespace-only message sent with a screenshot and a project
\* was answered 400.
C4_Witness ==
    \E r \in Slots :
        /\ MessageBlank(req[r].body)
        /\ req[r].body.message = Blank
        /\ req[r].body.screenshot # Null
        /\ req[r].body.project # Null
        /\ req[r].response = MessageRequired

\* The schema of FeedbackAIData.
IsText(v) == v.k = "string" /\ v.s # ""

WellFormed(v) ==
    /\ v.k = "object"
    /\ IsText(v.f.title)
    /\ IsText(v.f.short_summary)
    /\ IsText(v.f.suggested_feature_area)
    /\ v.f.key_details.k = "array"
    /\ v.f.steps.k = "array"
    /\ v.f.clarifying_questions.k = "array"
    /\ v.f.suggested_category.k = "string" /\ v.f.suggested_category.s \in Categories
    /\ v.f.suggested_priority.k = "string" /\ v.f.suggested_priority.s \in Priorities
    /\ v.f.confidence.k = "number" /\ v.f.confidence.n \in 0..100

\* C5: analyzeFeedback resolves to null or to an object that satisfies the
\* whole schema.
C5_NullOrWellFormed ==
    aiResult \in {Pending, Null} \/ WellFormed(aiResult)

\* The insert of slot r was issued and failed.
InsertFailed(q) == q.pc = "done" /\ q.inserts = 1 /\ q.row = Null

\* C6: when the insert fails the request is answered 500 and no
\* notification is dispatched.
C6_InsertFailure ==
    \A r \in Slots :
        InsertFailed(req[r]) =>
            /\ req[r].response.status = 500
            /\ req[r].mails = 0
            /\ req[r].mail = "none"

\* C6 witness: the insert failed after a stored screenshot and a
\* classification.
C6_Witness ==
    \E r \in Slots :
        /\ InsertFailed(req[r])
        /\ req[r].screenshotUrl # Null
        /\ req[r].aiData # Null

\* The reply holds no JSON object that satisfies the schema.
MalformedReply(reply) ==
    /\ reply.k = "text"
    /\ ~\E i \in 1..Len(reply.toks) :
           reply.toks[i].t = "value" /\ WellFormed(reply.toks[i].v)

\* Classification was unavailable to the invocation: no key, a failed call,
\* or a malformed reply.
Unclassified(q) ==
    /\ q.pc \in {"insert", "done"}
    /\ q.inserts = 1
    /\ q.aiCalls = 0 \/ q.reply = Threw \/ MalformedReply(q.reply)

\* C7: when classification is unavailable the record is inserted with
\* ai_data null, and the answer is 200 with ai_data null once the insert
\* succeeds.
C7_DegradesToNull ==
    \A r \in Slots :
        Unclassified(req[r]) =>
            /\ req[r].aiData = Null
            /\ req[r].row # Null =>
                  /\ req[r].row.ai_data = Null
                  /\ req[r].response = Received(req[r].row.id, Null)

\* The invocation in slot r starts in this step.
Arrives(r) == req[r].pc = "idle" /\ req'[r].pc # "idle"

\* The identity whose call this step records.
Caller == CHOOSE ip \in Ips : win'[ip] # win[ip]

\* C8: the requests of one identity in one window: each of the first
\* RATE_LIMIT goes on to form parsing and is never answered 429; the next is
\* answered 429 at once, whatever its body, with no effect.
C8_EleventhRejected ==
    [][\A r \in Slots :
          /\ Arrives(r) =>
                IF win'[Caller].calls <= RATE_LIMIT
                THEN req'[r].pc = "formData" /\ req'[r].response = NoResponse
                ELSE /\ req'[r].pc = "done"
                     /\ req'[r].response = TooManyRequests
                     /\ NoEffects(req'[r])
          /\ req[r].pc \notin {"idle", "done"} =>
                req'[r].response.status \in {0, 200, 400, 500}
      ]_vars

\* C8 witness: the eleventh request of the window, a valid submission with a
\* screenshot, was answered 429.
C8_Witness ==
    \E r \in Slots, ip \in Ips :
        /\ win[ip].calls = RATE_LIMIT + 1
        /\ req[r].response = TooManyRequests
        /\ req[r].body \in ValidForms
        /\ req[r].body.screenshot # Null

\* C9: whatever the interleaving of the requests in flight, the entry of an
\* identity counts exactly the requests admitted in its window, and these
\* are at most RATE_LIMIT.
C9_AtomicCount ==
    \A ip \in Ips :
        win[ip].start >= 0 =>
            /\ ip \in DOMAIN rateLimitMap
            /\ rateLimitMap[ip].count = win[ip].admitted
            /\ win[ip].admitted <= RATE_LIMIT

\* C9 witness: two admitted requests are in flight together while the
\* window is full.
C9_Witness ==
    \E ip \in Ips, r1, r2 \in Slots :
        /\ r1 # r2
        /\ req[r1].pc \notin {"idle", "done"}
        /\ req[r2].pc \notin {"idle", "done"}
        /\ win[ip].admitted = RATE_LIMIT

\* C10: every request is eventually answered, also when the AI backend
\* never answers.
C10_EventuallyAnswered ==
    \A r \in Slots : (req[r].pc # "idle") ~> (req[r].pc = "done")

\* C11: analyzeFeedback never raises: whatever the backend does, the call
\* resolves to null or to an object.
C11_NeverRaises ==
    /\ aiResult # Raised
    /\ aiResult \in {Pending, Null} \/ aiResult.k = "object"

\* C11 witness: the reply was the JSON text null, whose property read
\* throws inside the try block, and the call resolved to null.
C11_Witness ==
    /\ aiReply.k = "text"
    /\ \E i \in 1..Len(aiReply.toks) : aiReply.toks[i] = Json(Null)
    /\ TryBlock(aiReply) = Raised
    /\ aiResult = Null

\* The upload of slot r was issued and has settled without storing the
\* screenshot.
UploadFailed(q) == q.uploads = 1 /\ q.pc # "upload" /\ q.screenshotUrl = Null

\* C12: when the screenshot upload fails, the image is still held for
\* classification, the request goes on to the insert, the record carries no
\* screenshot reference, and the answer is the one the insert outcome gives.
C12_UploadFailureContinues ==
    \A r \in Slots :
        UploadFailed(req[r]) =>
            /\ req[r].screenshotBase64 # Null
            /\ req[r].pc \in {"generateContent", "insert", "done"}
            /\ req[r].pc = "done" =>
                  /\ req[r].inserts = 1
                  /\ IF req[r].row # Null
                     THEN /\ req[r].row.screenshot_url = Null
                          /\ req[r].response = Received(req[r].row.id, req[r].aiData)
                     ELSE req[r].response \in {FailedToSave, InternalError}

\* C13: a notification is dispatched at most once per request and only in
\* the step that sees the insert succeed; that same step produces the
\* response, so it exists while the notification is pending; and no step
\* taken while the notification is pending changes the response.
C13_FireAndForget ==
    [][\A r \in Slots :
          /\ req'[r].mails <= 1
          /\ req'[r].mails > req[r].mails =>
                /\ req'[r].row # Null
                /\ req'[r].pc = "done"
                /\ req'[r].response = Received(req'[r].row.id, req'[r].aiData)
          /\ req[r].mail = "pending" =>
                /\ req[r].pc = "done"
                /\ req'[r].pc = "done"
                /\ req'[r].response = req[r].response
      ]_vars

\* C13 witness: the notification failed after the request was answered 200.
C13_Witness ==
    \E r \in Slots :
        /\ req[r].mail = "failed"
        /\ req[r].mails = 1
        /\ req[r].row # Null
        /\ req[r].response = Received(req[r].row.id, req[r].aiData)

\* The place of a step in the pipeline.
Place(step) == CHOOSE i \in 1..Len(Pipeline) : Pipeline[i] = step

\* C14: the steps an invocation has entered are in pipeline order, none
\* twice, none without the mandatory ones before it; a request answered 429
\* entered the rate limit only, a trapped one went no further than the bot
\* filter, an invalid one no further than validation, and a failed insert is
\* the last step of its request.
C14_PipelineOrder ==
    \A r \in Slots :
        LET st == req[r].steps
            has(step) == \E i \in 1..Len(st) : st[i] = step
        IN  /\ \A i \in 1..Len(st) - 1 : Place(st[i]) < Place(st[i + 1])
            /\ req[r].pc # "idle" => st # << >> /\ st[1] = "rateLimit"
            /\ has("validation") => has("botFilter")
            /\ has("upload") \/ has("classification") \/ has("insert") => has("validation")
            /\ has("notification") => has("insert")
            /\ req[r].response = TooManyRequests => st = <<"rateLimit">>
            /\ req[r].response = BotAck => st = <<"rateLimit", "botFilter">>
            /\ req[r].response = MessageRequired =>
                  st = <<"rateLimit", "botFilter", "validation">>
            /\ req[r].response = FailedToSave => st[Len(st)] = "insert"
            /\ req[r].uploads = 1 => has("upload")
            /\ has("classification") = (req[r].aiCalls = 1)
            /\ has("insert") = (req[r].inserts = 1)
            /\ has("notification") = (req[r].mails = 1)

\* C14 witness: a request went through all seven steps and was answered.
C14_Witness ==
    \E r \in Slots : req[r].steps = Pipeline /\ req[r].pc = "done"

\* The reason strings of the error bodies, by status.
Reasons ==
    [s \in {400, 429, 500} |->
        CASE s = 400 -> {"Message is required"}
          [] s = 429 -> {"Too many requests"}
          [] s = 500 -> {"Failed to save feedback", "Internal server error"}]

\* C15: every response has status 200, 400, 429 or 500; a 200 body carries
\* no error, and every other body carries nothing but one of the fixed
\* reason strings of its status.
C15_ClosedResponses ==
    \A r \in Slots :
        IF req[r].pc # "done" THEN req[r].response = NoResponse
        ELSE LET resp == req[r].response
             IN  /\ resp.status \in {200, 400, 429, 500}
                 /\ resp.status = 200 => "error" \notin DOMAIN resp.body
                 /\ resp.status # 200 =>
                       /\ DOMAIN resp.body = {"error"}
                       /\ resp.body.error \in Reasons[resp.status]

\* C15 witness: a body that is no form made the parser throw, and the
\* request was answered with the internal-error reason.
C15_Witness ==
    \E r \in Slots :
        /\ req[r].body = Malformed
        /\ req[r].steps = <<"rateLimit">>
        /\ req[r].response = InternalError

\* C16: a request that was cancelled before its insert was issued, or that
\* was answered 500, leaves no record and no stored screenshot; and a
\* record, once inserted, is not changed by the rest of the request.
C16_NoOrphans ==
    [][\A r \in Slots :
          /\ req'[r].cancelled \/ (req'[r].pc = "done" /\ req'[r].response.status = 500) =>
                /\ req'[r].row = Null
                /\ req'[r].screenshotUrl = Null
          /\ req[r].row # Null /\ req'[r].pc # "idle" => req'[r].row = req[r].row
      ]_vars

\* The body is a form whose screenshot is larger than the maximum.
Oversize(body) ==
    /\ body # Null /\ body # Malformed
    /\ body.screenshot.k = "file"
    /\ body.screenshot.size > MaxScreenshot

\* C17: a submission whose screenshot exceeds the maximum size is neither
\* uploaded nor held for classification nor recorded, and once it has passed
\* the rate limit and the bot filter it is answered as invalid.
C17_OversizeRejected ==
    \A r \in Slots :
        Oversize(req[r].body) =>
            /\ req[r].uploads = 0
            /\ req[r].screenshotBase64 = Null
            /\ req[r].row = Null
            /\ req[r].pc = "done" /\ req[r].response # TooManyRequests
                  /\ ~TrapFilled(req[r].body) =>
                  req[r].response.status = 400

\* The invocation was answered 200 with a body other than the placeholder.
Accepted(q) == q.pc = "done" /\ q.response.status = 200 /\ q.response # BotAck

\* C18: a request attempts at most one insert; a request answered with a
\* real acceptance has its one record, of its own message, and the id in the
\* answer is that record's; every record has status "new" and belongs to
\* an accepted request.
C18_OneRecord ==
    \A r \in Slots :
        /\ req[r].inserts <= 1
        /\ Accepted(req[r]) =>
              /\ req[r].row # Null
              /\ req[r].row.message_raw = req[r].body.message
              /\ req[r].response.body.id = req[r].row.id
        /\ req[r].row # Null =>
              /\ req[r].inserts = 1
              /\ req[r].row.status = "new"
              /\ req[r].row.slot = r
              /\ Accepted(req[r])

\* C18 witness: a request with a stored screenshot and a classification was
\* accepted, and its answer carries the id of its record.
C18_Witness ==
    \E r \in Slots :
        /\ Accepted(req[r])
        /\ req[r].inserts = 1
        /\ req[r].row # Null
        /\ req[r].row.screenshot_url # Null
        /\ req[r].row.ai_data # Null
        /\ req[r].response.body.id = req[r].row.id

\* Prose or whitespace fills positions a..b of the text.
IsPad(s, a, b) == \A i \in a..b : s[i] \in {Prose, Ws}

\* The text between the fences at positions i and j, without the json tag
\* and the whitespace around it.
Fenced(s, i, j) ==
    LET a == SkipWs(s, IF i + 1 <= Len(s) /\ s[i + 1] = Tag THEN i + 2 ELSE i + 1)
    IN  TrimRight(SubSeq(s, a, j - 1))

\* The text is a fenced block, with or without the json tag, with or
\* without prose around it, that holds the text of one JSON object which
\* satisfies the schema; the fences are at positions i and j.
WrapsWellFormed(s, i, j) ==
    /\ i < j /\ s[i] = Fence /\ s[j] = Fence
    /\ IsPad(s, 1, i - 1) /\ IsPad(s, j + 1, Len(s))
    /\ LET parsed == JsonParse(Fenced(s, i, j))
       IN  parsed.ok /\ WellFormed(parsed.v) /\ Fenced(s, i, j) = TextOf(parsed.v)

\* C19: when the reply is a well-formed object in a fenced block, the call
\* resolves to what it resolves to on the text of the object alone.
C19_FenceTransparent ==
    aiReply.k = "text" /\ aiResult # Pending =>
        \A i, j \in 1..Len(aiReply.toks) :
            WrapsWellFormed(aiReply.toks, i, j) =>
                aiResult = analyzeFeedback(Text(Fenced(aiReply.toks, i, j)))

\* The identity's entry is full and its window has not elapsed.
Full(ip) ==
    /\ ip \in DOMAIN rateLimitMap
    /\ rateLimitMap[ip].count >= RATE_LIMIT
    /\ now <= rateLimitMap[ip].resetAt

\* C20: a call made while the identity's entry is full and its window has
\* not elapsed is rejected and leaves the whole table as it was: the entry's
\* count and resetAt, and every other identity's entry; and only such a
\* call is rejected.
C20_RejectMutatesNothing ==
    [][\A ip \in Ips :
          win'[ip] # win[ip] =>
              IF Full(ip)
              THEN ~win'[ip].last /\ rateLimitMap' = rateLimitMap
              ELSE win'[ip].last
      ]_vars

\* C20 witness: an identity was rejected later in its window while another
\* identity has an entry, and its entry still holds the limit and the
\* window's original end.
C20_Witness ==
    \E ip, other \in Ips :
        /\ ip # other
        /\ other \in DOMAIN rateLimitMap
        /\ ~win[ip].last
        /\ now > win[ip].start
        /\ rateLimitMap[ip] = [count |-> RATE_LIMIT, resetAt |-> win[ip].start + RATE_WINDOW]

\* C21: a call for an identity with no entry, or made later than the
\* entry's resetAt, is admitted and sets the entry to count 1 and resetAt
\* now + RATE_WINDOW; any other call, the one made exactly at resetAt
\* included, leaves resetAt as it is and counts in the old window.
C21_WindowReset ==
    [][\A ip \in Ips :
          win'[ip] # win[ip] =>
              IF ip \notin DOMAIN rateLimitMap \/ now > rateLimitMap[ip].resetAt
              THEN /\ win'[ip].last
                   /\ rateLimitMap'[ip] = [count |-> 1, resetAt |-> now + RATE_WINDOW]
              ELSE /\ rateLimitMap'[ip].resetAt = rateLimitMap[ip].resetAt
                   /\ win'[ip].start = win[ip].start
                   /\ win'[ip].calls = win[ip].calls + 1
      ]_vars

\* C21 witness: an identity whose last call was rejected has been admitted
\* by its first call after the window elapsed, which opened a new window.
C21_Witness ==
    \E ip \in Ips :
        /\ win[ip].prior = "rejected"
        /\ win[ip].calls = 1
        /\ win[ip].last
        /\ win[ip].start = now
        /\ rateLimitMap[ip] = [count |-> 1, resetAt |-> now + RATE_WINDOW]

\* The invocation has entered the step.
Entered(q, step) == \E i \in 1..Len(q.steps) : q.steps[i] = step

\* C22: of the submissions that reach the bot filter, exactly those whose
\* trap value holds something other than whitespace are treated as bots:
\* they stop at the filter with the placeholder; every other one, its trap
\* absent, empty or whitespace-only, goes on to validation, whatever its
\* other fields.
C22_BotFilter ==
    \A r \in Slots :
        Entered(req[r], "botFilter") =>
            IF TrapFilled(req[r].body)
            THEN /\ req[r].steps = <<"rateLimit", "botFilter">>
                 /\ req[r].response = BotAck
            ELSE /\ Entered(req[r], "validation")
                 /\ req[r].response # BotAck

\* C22 witness: a submission with a whitespace-only trap value went on to
\* validation and was recorded.
C22_Witness ==
    \E r \in Slots :
        /\ req[r].body # Null /\ req[r].body # Malformed
        /\ req[r].body.website = Blank
        /\ Entered(req[r], "validation")
        /\ req[r].row # Null

\* The identity C23 states for the headers: the first value of
\* x-forwarded-for if the header is present, else x-real-ip if present, else
\* "unknown".
StatedIdentity(h) ==
    IF h.xff # Null THEN h.xff.items[1]
    ELSE IF h.realip # Null THEN h.realip.s
    ELSE "unknown"

\* The same, with an empty value treated like an absent header.
NonEmptyIdentity(h) ==
    IF h.xff # Null /\ h.xff.items[1] # "" THEN h.xff.items[1]
    ELSE IF h.realip # Null /\ h.realip.s # "" THEN h.realip.s
    ELSE "unknown"

\* C23 as stated: the request that arrives is counted in the entry of the
\* identity stated, and in no other.
C23_HeaderPresent ==
    [][\A r \in Slots :
          Arrives(r) =>
              \A ip \in Peers :
                  (win'[ip] # win[ip]) = (ip = StatedIdentity(req'[r].headers))
      ]_vars

\* C23 amended: the request that arrives is counted in the entry of the
\* first non-empty of the first x-forwarded-for value and x-real-ip, or of
\* "unknown" if there is none, and in no other entry; so requests with
\* neither header are all counted in the entry of "unknown".
C23_FirstNonEmpty ==
    [][\A r \in Slots :
          Arrives(r) =>
              \A ip \in Peers :
                  /\ (win'[ip] # win[ip]) = (ip = NonEmptyIdentity(req'[r].headers))
                  /\ ip # NonEmptyIdentity(req'[r].headers) =>
                        /\ (ip \in DOMAIN rateLimitMap') = (ip \in DOMAIN rateLimitMap)
                        /\ ip \in DOMAIN rateLimitMap => rateLimitMap'[ip] = rateLimitMap[ip]
      ]_vars

\* C23 witness: a request whose x-forwarded-for starts with an empty value
\* was counted under its x-real-ip, after one with neither header was
\* counted under "unknown".
C23_Witness ==
    \E r \in Slots :
        /\ req[r].headers = [xff |-> List(<<"", "10.0.0.1">>), realip |-> Str("198.51.100.9")]
        /\ req[r].pc = "formData"
        /\ win["198.51.100.9"].calls = 1
        /\ rateLimitMap["198.51.100.9"].count = 1
        /\ win["unknown"].calls = 1
        /\ win["203.0.113.7"].calls = 0

\* The field is there and is not the empty string.
Present(x) == x \notin {Undefined, Null, Str("")}

\* C24: a result other than null is an object that has a title, a short
\* summary and a feature area, a category and a priority of their enums and
\* a key_details array, and is the value of a piece of JSON text in the
\* reply; every reply that gives no such object resolves to null.
C24_DefectiveIsNull ==
    aiResult \notin {Pending, Null} =>
        /\ aiResult.k = "object"
        /\ Present(aiResult.f.title)
        /\ Present(aiResult.f.short_summary)
        /\ Present(aiResult.f.suggested_feature_area)
        /\ aiResult.f.suggested_category \in {Str(c) : c \in Categories}
        /\ aiResult.f.suggested_priority \in {Str(p) : p \in Priorities}
        /\ aiResult.f.key_details = Arr
        /\ aiReply.k = "text"
        /\ \E i, j \in 1..Len(aiReply.toks) :
              SubSeq(aiReply.toks, i, j) = TextOf(aiResult)

\* C24 witness: the reply was an object, complete but for a priority
\* outside the enum, and the call resolved to null.
C24_Witness ==
    /\ aiReply = Text(<<Json(Obj([GoodFields("bug", "high") EXCEPT
                                    !.suggested_priority = Str("urgent")]))>>)
    /\ aiResult = Null

\* C25: after every step, each entry of the table has a count from 1 to
\* RATE_LIMIT and a resetAt equal to the time of the call that opened its
\* window plus RATE_WINDOW, the table holds an entry for exactly the
\* identities that have called, and no step removes an entry.
C25_TableInvariant ==
    [][/\ \A ip \in DOMAIN rateLimitMap' :
             /\ rateLimitMap'[ip].count \in 1..RATE_LIMIT
             /\ ip \in Peers
             /\ win'[ip].start >= 0
             /\ rateLimitMap'[ip].resetAt = win'[ip].start + RATE_WINDOW
       /\ \A ip \in Peers : win'[ip].start >= 0 => ip \in DOMAIN rateLimitMap'
       /\ DOMAIN rateLimitMap \subseteq DOMAIN rateLimitMap'
      ]_vars

\* C25 witness: the entry of an identity whose window has elapsed is still
\* in the table, full, beside the entry another identity opened later.
C25_Witness ==
    \E ip, other \in DOMAIN rateLimitMap :
        /\ rateLimitMap[ip].count = RATE_LIMIT
        /\ now > rateLimitMap[ip].resetAt
        /\ rateLimitMap[other].resetAt > rateLimitMap[ip].resetAt
        /\ rateLimitMap[other].count = 1

\* C26: the step in which a request arrives adds one to the count of its
\* identity's window (or opens a window with count 1) when the request is
\* admitted, and leaves the table alone when it is answered 429; no later
\* step of any request, whatever its answer, changes the table.
C26_AdmissionConsumes ==
    [][/\ \A r \in Slots :
             Arrives(r) =>
                 LET ip == NonEmptyIdentity(req'[r].headers)
                     open == ip \in DOMAIN rateLimitMap /\ now <= rateLimitMap[ip].resetAt
                 IN  IF req'[r].response = TooManyRequests
                     THEN rateLimitMap' = rateLimitMap
                     ELSE /\ req'[r].response = NoResponse
                          /\ rateLimitMap'[ip].count =
                                IF open THEN rateLimitMap[ip].count + 1 ELSE 1
       /\ (\A r \in Slots : ~Arrives(r)) => rateLimitMap' = rateLimitMap
      ]_vars

\* C26 witness: in one window, a request was answered 400 and another the
\* placeholder, and both are counted.
C26_Witness ==
    \E r1, r2 \in Slots, ip \in Peers :
        /\ req[r1].response = MessageRequired
        /\ req[r2].response = BotAck
        /\ win[ip].calls = 2
        /\ rateLimitMap[ip].count = 2

\* The base64 copy of the screenshot of slot r is among the values.
HoldsImage(q, values) == q.screenshotBase64 # Null /\ q.screenshotBase64 \in values

\* C27: for every recorded submission, the classification in the response,
\* the one in the record and the one passed to the notification are one
\* value, null or the result that passed the structure test; the base64
\* image is passed to the classification call when there is one and is in
\* none of the record, the response and the notification.
C27_OneClassification ==
    \A r \in Slots :
        LET q == req[r] IN
        /\ q.aiCalls = 1 =>
              q.aiImage = (IF q.screenshotBase64 = Null THEN Undefined
                           ELSE q.screenshotBase64)
        /\ q.row # Null =>
              /\ q.row.ai_data = q.aiData
              /\ q.response.body.ai_data = q.aiData
              /\ q.mailData # Null
              /\ q.mailData.ai_data = q.aiData
              /\ q.aiData # Null =>
                    q.aiCalls = 1 /\ q.aiData.k = "object" /\ ~StructureInvalid(q.aiData)
              /\ ~HoldsImage(q, {q.row.id, q.row.message_raw, q.row.screenshot_url,
                                  q.row.ai_data, q.row.project_id})
              /\ ~HoldsImage(q, {q.response.body.id, q.response.body.ai_data})
              /\ ~HoldsImage(q, {q.mailData.id, q.mailData.message_raw,
                                  q.mailData.ai_data})

\* C27 witness: a submission whose upload failed was classified with the
\* in-memory image and recorded with the classification and no screenshot.
C27_Witness ==
    \E r \in Slots :
        /\ req[r].row # Null
        /\ req[r].aiImage = Str("data:image/png;base64")
        /\ req[r].row.ai_data # Null
        /\ req[r].mailData.ai_data = req[r].row.ai_data
        /\ req[r].row.screenshot_url = Null

\* The widget's message holds nothing but whitespace.
NothingTyped(w) == \A i \in 1..Len(w.message.c) : w.message.c[i] = Ws

\* The sends of the widget that have not ended.
Outstanding(w) == w.fetching + w.parsing

\* C28: handleSend issues a request only when the message holds more than
\* whitespace and no send is in flight, so at most one is outstanding and
\* isSending tells whether one is; and every step that ends a send, by
\* success, by a response that is not ok or by an exception, leaves
\* isSending false.
C28_OneSendAtATime ==
    [][/\ widget'.sends > widget.sends =>
             /\ ~NothingTyped(widget)
             /\ ~widget.isSending
             /\ Outstanding(widget) = 0
       /\ Outstanding(widget') <= 1
       /\ widget'.isSending = (Outstanding(widget') = 1)
       /\ Outstanding(widget') < Outstanding(widget) => ~widget'.isSending
      ]_vars

\* C28 witness: a second send ended in the catch block, by a response that
\* was not ok, and isSending is false again.
C28_Witness ==
    /\ widget.sends = 2
    /\ widget.last = "status"
    /\ Outstanding(widget) = 0
    /\ ~widget.isSending
    /\ widget.isSent

====
